---- MODULE Spec2Model ----
(***************************************************************************)
(* pywizlight fan support (src/pywizlight/fan.py): FanPilotBuilder and the *)
(* WizFan device wrapper, as a state machine.                              *)
(*                                                                         *)
(* A caller invokes one public coroutine of a WizFan instance.  The        *)
(* coroutine runs without suspension up to `await self._do_command(...)`,  *)
(* where the command is handed to the transport collaborator and the       *)
(* coroutine is suspended.  The collaborator then either returns a reply   *)
(* mapping or raises a connection / timeout error, and the coroutine runs  *)
(* on to its next await or to its end.  One action models each of these    *)
(* uninterrupted runs.                                                     *)
(***************************************************************************)
EXTENDS Integers, Sequences, FiniteSets, TLC

(***************************************************************************)
(* Bounds of the model.                                                    *)
(***************************************************************************)
\* speed arguments are drawn from -1 .. MaxSpeedArg (and None)
MaxSpeedArg == 7
\* fanSpeed values of a status reply are drawn from 0 .. MaxStatusSpeed
MaxStatusSpeed == 2

(***************************************************************************)
(* Python values.  JSON scalars of different types live in one mapping, so *)
(* a value is a tagged record: k is the type, s the text of a str, n the   *)
(* number of an int or bool.  Absent marks a key a mapping does not hold.  *)
(***************************************************************************)
None == [k |-> "none", s |-> "", n |-> 0]
Absent == [k |-> "absent", s |-> "", n |-> 0]
S(x) == [k |-> "str", s |-> x, n |-> 0]
I(x) == [k |-> "int", s |-> "", n |-> x]
B(x) == [k |-> "bool", s |-> "", n |-> IF x THEN 1 ELSE 0]

\* Python truthiness of a scalar, as `or` and bool() evaluate it
Truthy(v) ==
  CASE v.k = "str" -> v.s # ""
    [] v.k = "int" -> v.n # 0
    [] v.k = "bool" -> v.n # 0
    [] OTHER -> FALSE

\* str(v), as an f-string formats `{v}`
Str(v) ==
  CASE v.k = "str" -> v.s
    [] v.k = "int" -> ToString(v.n)
    [] v.k = "bool" -> IF v.n = 1 THEN "True" ELSE "False"
    [] OTHER -> "None"

\* repr(v), as an f-string formats `{v!r}` and as dict.__repr__ shows a value
Repr(v) ==
  CASE v.k = "str" -> "'" \o v.s \o "'"
    [] OTHER -> Str(v)

(***************************************************************************)
(* Enumerations and constants of fan.py.                                   *)
(***************************************************************************)
NORMAL == 1
BREEZE == 2
SUMMER == 0
WINTER == 1
FAN_STATE_OFF == 0
FAN_STATE_ON == 1

FanMode == {NORMAL, BREEZE}
FanReverse == {SUMMER, WINTER}

(***************************************************************************)
(* setPilot payloads: a mapping from wire key to integer, modelled as a    *)
(* function whose domain is the set of keys present.                       *)
(***************************************************************************)
EmptyPayload == [x \in {} |-> 0]

\* fault: the mapping replaced by one holding the stored key alone
PutReplace(p, key, value) == key :> value

\* `p[key] = value`
Put(p, key, value) ==
  [x \in (DOMAIN p) \cup {key} |-> IF x = key THEN value ELSE p[x]]

\* fault: the guard `if not params: return` left out
EmptyDictNever(params) == FALSE

\* `not params` of _send_pilot: an empty mapping is falsy
EmptyDict(params) == DOMAIN params = {}

(***************************************************************************)
(* FanPilotBuilder.  A builder is its _payload; a call of a fluent helper  *)
(* either raises ValueError (raised = TRUE, _payload as it was) or stores  *)
(* one key.                                                                *)
(***************************************************************************)
NewBuilder == [payload |-> EmptyPayload, raised |-> FALSE]

\* fault: the upper end of the range off by one, range(1, 8)
SpeedInRangeWide(value) == value \in 1..7

\* `value not in range(1, 7)` is False
SpeedInRange(value) == value \in 1..6

\* fault: assignment before the range check
BuilderSpeedStoreFirst(b, value) ==
  IF b.raised THEN b
  ELSE [payload |-> Put(b.payload, "fanSpeed", value),
        raised |-> ~SpeedInRange(value)]

\* speed(): the range check, then the assignment
BuilderSpeed(b, value) ==
  IF b.raised THEN b
  ELSE IF ~SpeedInRange(value) THEN [b EXCEPT !.raised = TRUE]
  ELSE [b EXCEPT !.payload = Put(@, "fanSpeed", value)]

BuilderMode(b, value) ==
  IF b.raised THEN b ELSE [b EXCEPT !.payload = Put(@, "fanMode", value)]

\* fault: the direction stored under a key the status reply does not use
BuilderReverseLongKey(b, value) ==
  IF b.raised THEN b ELSE [b EXCEPT !.payload = Put(@, "fanReverse", value)]

BuilderReverse(b, value) ==
  IF b.raised THEN b ELSE [b EXCEPT !.payload = Put(@, "fanRevrs", value)]

\* FanPilotBuilder(speed=, mode=, reverse=): each argument is None or I(n)
FanPilotBuilder(speed, mode, reverse) ==
  LET b0 == NewBuilder
      b1 == IF speed # None THEN BuilderSpeed(b0, speed.n) ELSE b0
      b2 == IF mode # None THEN BuilderMode(b1, mode.n) ELSE b1
      b3 == IF reverse # None THEN BuilderReverse(b2, reverse.n) ELSE b2
  IN b3

\* fault: a helper replacing the mapping instead of storing one key
\* the payload property: dict(self._payload)
BuilderPayload(b) == [x \in DOMAIN b.payload |-> b.payload[x]]

\* __bool__
BuilderBool(b) == ~EmptyDict(b.payload)

(***************************************************************************)
(* WizFan helpers.                                                         *)
(***************************************************************************)
\* `state not in (FAN_STATE_OFF, FAN_STATE_ON)` is False
StateValid(state) == state \in {FAN_STATE_OFF, FAN_STATE_ON}

\* fault: a parameter merged into the power command
StatePayloadMerged(state) == ("fanState" :> state) @@ ("fanSpeed" :> 1)

\* fault: the two power constants swapped
StatePayloadSwapped(state) == "fanState" :> (1 - state)

\* the mapping _send_state hands to _send_pilot
StatePayload(state) == "fanState" :> state

\* fault: truthiness instead of `is not None`, any((speed, mode, reverse))
AnyParamTruthy(speed, mode, reverse) ==
  Truthy(speed) \/ Truthy(mode) \/ Truthy(reverse)

\* `any(arg is not None for arg in (speed, mode, reverse))`
AnyParam(speed, mode, reverse) ==
  speed # None \/ mode # None \/ reverse # None

\* dict.get(key) on a reply: None when the key is absent
Get(response, key) ==
  IF response[key] = Absent THEN None ELSE response[key]

\* dict.get(key, default)
GetOr(response, key, default) ==
  IF response[key] = Absent THEN default ELSE response[key]

\* fault: any reply carrying a result field taken as success
AcceptedAnyResult(response) == response["result"] # Absent

\* `response.get("result") == "ok"`
Accepted(response) == Get(response, "result") = S("ok")

\* fault: a default in the fallback, response.get("result", "unknown")
ErrorCodeDefault(response) ==
  IF Truthy(Get(response, "error"))
  THEN Get(response, "error")
  ELSE GetOr(response, "result", S("unknown"))

\* `response.get("error") or response.get("result")`
ErrorCode(response) ==
  IF Truthy(Get(response, "error"))
  THEN Get(response, "error")
  ELSE Get(response, "result")

(***************************************************************************)
(* Text of the WizLightProtocolError message:                              *)
(* f"Unexpected response to setPilot {sent!r}: {response!r}                *)
(*   (error={error_code})"                                                 *)
(* A dict's repr lists its items in insertion order: the builder inserts   *)
(* fanSpeed, fanMode, fanRevrs in this order; a reply is shown with its    *)
(* keys in the order of ReplyKeys.                                         *)
(***************************************************************************)
PayloadKeys == <<"fanState", "fanSpeed", "fanMode", "fanRevrs">>
ReplyKeys == <<"result", "error", "fanSpeed", "fanMode", "fanRevrs">>

\* the i-th key of a dict's repr, when the dict holds it, after ", " unless
\* it is the first one shown; shown maps each key held to the repr of its
\* value
ReprItem(keys, shown, i) ==
  IF i > Len(keys) \/ keys[i] \notin DOMAIN shown THEN ""
  ELSE (IF \E j \in 1..(i - 1) : keys[j] \in DOMAIN shown THEN ", " ELSE "")
       \o "'" \o keys[i] \o "': " \o shown[keys[i]]

\* the items of a dict's repr (of at most five keys)
ReprItems(keys, shown) ==
  ReprItem(keys, shown, 1) \o ReprItem(keys, shown, 2)
  \o ReprItem(keys, shown, 3) \o ReprItem(keys, shown, 4)
  \o ReprItem(keys, shown, 5)

ReprPayload(p) ==
  "{" \o ReprItems(PayloadKeys, [key \in DOMAIN p |-> ToString(p[key])]) \o "}"

ReprReply(r) ==
  LET present == {key \in DOMAIN r : r[key] # Absent} IN
  "{" \o ReprItems(ReplyKeys, [key \in present |-> Repr(r[key])]) \o "}"

\* fault: the reply left out of the message
ProtocolMessageNoReply(sent, response, code) ==
  "Unexpected response to setPilot " \o ReprPayload(sent)
  \o " (error=" \o Str(code) \o ")"

ProtocolMessage(sent, response, code) ==
  "Unexpected response to setPilot " \o ReprPayload(sent) \o ": "
  \o ReprReply(response) \o " (error=" \o Str(code) \o ")"

(***************************************************************************)
(* Inputs: arguments of the public coroutines and what the transport       *)
(* collaborator (_do_command) can answer.                                  *)
(***************************************************************************)
SpeedArgs == {None} \cup {I(n) : n \in -1..MaxSpeedArg}
ModeArgs == {None} \cup {I(n) : n \in FanMode}
ReverseArgs == {None} \cup {I(n) : n \in FanReverse}

NoReply ==
  [result |-> Absent, error |-> Absent,
   fanSpeed |-> Absent, fanMode |-> Absent, fanRevrs |-> Absent]

\* replies to setPilot: any combination of a result and an error field
SetPilotReplies ==
  { [NoReply EXCEPT !.result = r, !.error = e] :
      r \in {Absent, None, S("ok"), S("error"), S("0"), I(0)},
      e \in {Absent, None, S("invalid"), S(""), I(0)} }

\* replies to getPilot: the pilot fields, with or without result / error
GetPilotReplies ==
  { [result |-> r, error |-> e, fanSpeed |-> sp, fanMode |-> m, fanRevrs |-> rv] :
      r \in {Absent, S("ok"), S("error")},
      e \in {Absent, S("invalid")},
      sp \in {Absent} \cup {I(n) : n \in 0..MaxStatusSpeed},
      m \in {Absent, I(0), I(NORMAL), I(BREEZE), I(3)},
      rv \in {Absent, I(SUMMER), I(WINTER)} }

\* the failures _do_command raises
TransportFailures ==
  { [type |-> "WizLightConnectionError", msg |-> "connection refused"],
    [type |-> "WizLightTimeOutError", msg |-> "timed out"] }

\* Callers of one WizFan instance.  The instance keeps no lock, so calls of
\* different callers may overlap; Spec below lets MainCaller alone call, one
\* coroutine at a time.
Callers == {"A", "B"}
MainCaller == "A"

(***************************************************************************)
(* State of a WizFan instance and its callers.  pc .. log are functions of  *)
(* the caller.                                                             *)
(***************************************************************************)
VARIABLES
  pc,          \* where the caller's coroutine is: "idle", an await, or "done"
  call,        \* the public coroutine invoked and its arguments
  callLog,     \* commands the current call has handed to _do_command, in order
  answers,     \* what _do_command answered to the current call's commands, in order
  error_code,  \* local `error_code` of _validate_response
  outcome,     \* how the current call ended: value returned or exception raised
  log,         \* records the current call gave to _LOGGER
  lastTx       \* the command most recently handed to the transport, by anyone

(***************************************************************************)
(* State of a FanPilotBuilder used on its own, and of a device that        *)
(* answers status queries with the parameters last applied to it.          *)
(***************************************************************************)
VARIABLES
  heap,        \* the dict objects: "_payload" of the builder, "copy" made by
               \* the payload property
  held,        \* the object the builder's user got from the payload property
  given,       \* the value last stored by speed() / mode() / reverse()
  last,        \* the step last made on the builder and whether it raised
  device,      \* the pilot parameters the device has applied
  lastSet      \* the arguments of the parameter commands the device accepted

fanVars == <<pc, call, callLog, answers, error_code, outcome, log, lastTx>>
builderVars == <<heap, held, given, last>>
deviceVars == <<device, lastSet>>
vars == <<fanVars, builderVars, deviceVars>>

NoCall == [name |-> "", speed |-> None, mode |-> None, reverse |-> None]
NoExc == [type |-> "", msg |-> ""]
NoOutcome == [kind |-> "none", exc |-> NoExc, val |-> None, map |-> NoReply]
Returned(val, map) == [kind |-> "returned", exc |-> NoExc, val |-> val, map |-> map]
Raised(exc) == [kind |-> "raised", exc |-> exc, val |-> None, map |-> NoReply]

Cmd(name, params) == [cmd |-> name, params |-> params]

\* an answer of _do_command: a reply mapping returned or a failure raised
Replied(r) == [kind |-> "reply", reply |-> r, exc |-> NoExc]
Failed(exc) == [kind |-> "raise", reply |-> NoReply, exc |-> exc]

ValueErrorSpeed ==
  [type |-> "ValueError", msg |-> "fanSpeed must be between 1 and 6 inclusive"]
ValueErrorState ==
  [type |-> "ValueError", msg |-> "fanState must be 0 (off) or 1 (on)"]
ValueErrorMode(v) ==
  [type |-> "ValueError", msg |-> Str(v) \o " is not a valid FanMode"]
ProtocolError(sent, reply, code) ==
  [type |-> "WizLightProtocolError", msg |-> ProtocolMessage(sent, reply, code)]

\* no parameter given yet
NoGiven == [speed |-> None, mode |-> None, reverse |-> None]

Init ==
  /\ pc = [t \in Callers |-> "idle"]
  /\ call = [t \in Callers |-> NoCall]
  /\ callLog = [t \in Callers |-> <<>>]
  /\ answers = [t \in Callers |-> <<>>]
  /\ error_code = [t \in Callers |-> None]
  /\ outcome = [t \in Callers |-> NoOutcome]
  /\ log = [t \in Callers |-> <<>>]
  /\ lastTx = [caller |-> "", n |-> 0, params |-> EmptyPayload]
  /\ heap = [o \in {"_payload", "copy"} |-> EmptyPayload]
  /\ held = "none"
  /\ given = NoGiven
  /\ last = [op |-> "new", arg |-> 0, raised |-> FALSE]
  /\ device = EmptyPayload
  /\ lastSet = NoGiven

(***************************************************************************)
(* Steps shared by the coroutines.                                         *)
(***************************************************************************)
\* a caller can invoke a coroutine when it has none in progress
CanCall(t) == pc[t] \in {"idle", "done"}

\* the call begins: fresh locals
Begin(t, name, speed, mode, reverse) ==
  /\ CanCall(t)
  /\ call' = [call EXCEPT ![t] =
       [name |-> name, speed |-> speed, mode |-> mode, reverse |-> reverse]]
  /\ answers' = [answers EXCEPT ![t] = <<>>]
  /\ error_code' = [error_code EXCEPT ![t] = None]
  /\ log' = [log EXCEPT ![t] = <<>>]

\* the coroutine ends
Finish(t, how) ==
  /\ pc' = [pc EXCEPT ![t] = "done"]
  /\ outcome' = [outcome EXCEPT ![t] = how]

\* `await self._do_command(name, params)`: the command is handed to the
\* transport and the coroutine is suspended at `at`; sofar is what the call
\* has transmitted before
DoCommand(t, name, params, sofar, at) ==
  /\ callLog' = [callLog EXCEPT ![t] = Append(sofar, Cmd(name, params))]
  /\ lastTx' = [caller |-> t, n |-> Len(sofar) + 1, params |-> params]
  /\ pc' = [pc EXCEPT ![t] = at]
  /\ outcome' = [outcome EXCEPT ![t] = NoOutcome]

\* the coroutine ends without handing anything (more) to the transport
EndQuiet(t, sofar, how) ==
  /\ callLog' = [callLog EXCEPT ![t] = sofar]
  /\ UNCHANGED lastTx
  /\ Finish(t, how)

\* _send_pilot up to its await: nothing to send for an empty mapping.  It is
\* the last statement of every coroutine that reaches it with a mapping that
\* can be empty, so its early return ends the call.
SendPilot(t, params, sofar, at) ==
  IF EmptyDict(params)
  THEN EndQuiet(t, sofar, Returned(None, NoReply))
  ELSE DoCommand(t, "setPilot", params, sofar, at)

\* fault: the power state remembered on the instance, a command for the
\* state transmitted last left out
SendStateCached(t, state, sofar, at) ==
  IF ~StateValid(state)
  THEN EndQuiet(t, sofar, Raised(ValueErrorState))
  ELSE IF lastTx.n > 0 /\ lastTx.params = StatePayload(state)
       THEN EndQuiet(t, sofar, Returned(None, NoReply))
       ELSE SendPilot(t, StatePayload(state), sofar, at)

\* _send_state up to the await of _send_pilot
SendState(t, state, sofar, at) ==
  IF ~StateValid(state)
  THEN EndQuiet(t, sofar, Raised(ValueErrorState))
  ELSE SendPilot(t, StatePayload(state), sofar, at)

\* fault: a rejected parameter of turn_on compensated by a power-off command
BuildAndSendRollback(t, speed, mode, reverse, sofar, at) ==
  LET b == FanPilotBuilder(speed, mode, reverse) IN
  IF b.raised
  THEN IF sofar = <<>>
       THEN EndQuiet(t, sofar, Raised(ValueErrorSpeed))
       ELSE DoCommand(t, "setPilot", StatePayload(FAN_STATE_OFF), sofar,
                      "turn_off_state")
  ELSE SendPilot(t, BuilderPayload(b), sofar, at)

\* build a payload and send it: `_send_pilot(FanPilotBuilder(...).payload)`
BuildAndSend(t, speed, mode, reverse, sofar, at) ==
  LET b == FanPilotBuilder(speed, mode, reverse) IN
  IF b.raised
  THEN EndQuiet(t, sofar, Raised(ValueErrorSpeed))
  ELSE SendPilot(t, BuilderPayload(b), sofar, at)

(***************************************************************************)
(* Public coroutines, up to their first await.                             *)
(***************************************************************************)
TurnOn(t, speed, mode, reverse) ==
  /\ Begin(t, "turn_on", speed, mode, reverse)
  /\ SendState(t, FAN_STATE_ON, <<>>, "turn_on_state")

TurnOff(t) ==
  /\ Begin(t, "turn_off", None, None, None)
  /\ SendState(t, FAN_STATE_OFF, <<>>, "turn_off_state")

SetSpeed(t, speed) ==
  /\ Begin(t, "set_speed", speed, None, None)
  /\ BuildAndSend(t, speed, None, None, <<>>, "set_pilot")

SetMode(t, mode) ==
  /\ Begin(t, "set_mode", None, mode, None)
  /\ BuildAndSend(t, None, mode, None, <<>>, "set_pilot")

SetReverse(t, reverse) ==
  /\ Begin(t, "set_reverse", None, None, reverse)
  /\ BuildAndSend(t, None, None, reverse, <<>>, "set_pilot")

\* get_status, and get_speed / get_mode / is_reversed which await it first
Poll(t, name) ==
  /\ Begin(t, name, None, None, None)
  /\ DoCommand(t, "getPilot", EmptyPayload, <<>>, "get_pilot")

GetStatus(t) == Poll(t, "get_status")
GetSpeed(t) == Poll(t, "get_speed")
GetMode(t) == Poll(t, "get_mode")
IsReversed(t) == Poll(t, "is_reversed")

(***************************************************************************)
(* The transport answers a setPilot.                                       *)
(***************************************************************************)
AwaitsSetPilot(t) ==
  pc[t] \in {"turn_on_state", "turn_on_params", "turn_off_state", "set_pilot"}

\* the mapping the awaited command carried
Sent(t) == callLog[t][Len(callLog[t])].params

\* fault: the parameters of turn_on kept on the instance, where the call
\* that transmitted last has left its own
SetPilotReturnsSharedArgs(t, r) ==
  /\ AwaitsSetPilot(t)
  /\ answers' = [answers EXCEPT ![t] = Append(@, Replied(r))]
  /\ UNCHANGED <<call, log>>
  /\ IF Accepted(r)
     THEN /\ UNCHANGED error_code
          /\ IF pc[t] = "turn_on_state"
                /\ AnyParam(call[t].speed, call[t].mode, call[t].reverse)
             THEN LET shared == call[lastTx.caller] IN
                  BuildAndSend(t, shared.speed, shared.mode, shared.reverse,
                               callLog[t], "turn_on_params")
             ELSE EndQuiet(t, callLog[t], Returned(None, NoReply))
     ELSE /\ error_code' = [error_code EXCEPT ![t] = ErrorCode(r)]
          /\ EndQuiet(t, callLog[t],
                      Raised(ProtocolError(Sent(t), r, ErrorCode(r))))

\* _do_command returns reply r: _validate_response, then the rest of the
\* coroutine.  Only turn_on has a rest: the parameter command.
SetPilotReturns(t, r) ==
  /\ AwaitsSetPilot(t)
  /\ answers' = [answers EXCEPT ![t] = Append(@, Replied(r))]
  /\ UNCHANGED <<call, log>>
  /\ IF Accepted(r)
     THEN /\ UNCHANGED error_code
          /\ IF pc[t] = "turn_on_state"
                /\ AnyParam(call[t].speed, call[t].mode, call[t].reverse)
             THEN BuildAndSend(t, call[t].speed, call[t].mode, call[t].reverse,
                               callLog[t], "turn_on_params")
             ELSE EndQuiet(t, callLog[t], Returned(None, NoReply))
     ELSE /\ error_code' = [error_code EXCEPT ![t] = ErrorCode(r)]
          /\ EndQuiet(t, callLog[t],
                      Raised(ProtocolError(Sent(t), r, ErrorCode(r))))

\* fault: the failure logged and swallowed, the bare `raise` left out
SetPilotRaisesSwallowed(t, exc) ==
  /\ AwaitsSetPilot(t)
  /\ log' = [log EXCEPT ![t] = Append(@, [level |-> "error", exc |-> exc])]
  /\ answers' = [answers EXCEPT ![t] = Append(@, Failed(exc))]
  /\ UNCHANGED <<call, error_code>>
  /\ EndQuiet(t, callLog[t], Returned(None, NoReply))

\* _do_command raises a connection or timeout error: logged and re-raised
SetPilotRaises(t, exc) ==
  /\ AwaitsSetPilot(t)
  /\ log' = [log EXCEPT ![t] = Append(@, [level |-> "error", exc |-> exc])]
  /\ answers' = [answers EXCEPT ![t] = Append(@, Failed(exc))]
  /\ UNCHANGED <<call, error_code>>
  /\ EndQuiet(t, callLog[t], Raised(exc))

(***************************************************************************)
(* The transport answers a getPilot.                                       *)
(***************************************************************************)
\* fault: the status reply validated like the reply to a setPilot
StatusResultValidated(name, r) ==
  IF ~Accepted(r) THEN Raised(ProtocolError(EmptyPayload, r, ErrorCode(r)))
  ELSE Returned(None, r)

\* how the coroutine `name` ends on status reply r: get_status returns the
\* reply; the three accessors project it
StatusResult(name, r) ==
  CASE name = "get_status" -> Returned(None, r)
    [] name = "get_speed" ->
         Returned(I(GetOr(r, "fanSpeed", I(0)).n), NoReply)
    [] name = "get_mode" ->
         LET v == GetOr(r, "fanMode", I(NORMAL)) IN
         IF v.n \in FanMode THEN Returned(v, NoReply)
         ELSE Raised(ValueErrorMode(v))
    [] name = "is_reversed" ->
         Returned(B(Truthy(GetOr(r, "fanRevrs", I(SUMMER)))), NoReply)

GetPilotReturns(t, r) ==
  /\ pc[t] = "get_pilot"
  /\ answers' = [answers EXCEPT ![t] = Append(@, Replied(r))]
  /\ UNCHANGED <<call, log, error_code>>
  /\ EndQuiet(t, callLog[t], StatusResult(call[t].name, r))

GetPilotRaises(t, exc) ==
  /\ pc[t] = "get_pilot"
  /\ log' = [log EXCEPT ![t] = Append(@, [level |-> "warning", exc |-> exc])]
  /\ answers' = [answers EXCEPT ![t] = Append(@, Failed(exc))]
  /\ UNCHANGED <<call, error_code>>
  /\ EndQuiet(t, callLog[t], Raised(exc))

(***************************************************************************)
(* One step of caller t: a call with arguments drawn from the given sets,  *)
(* or an answer of the transport drawn from the given sets.                *)
(***************************************************************************)
CallOver(t, speeds, modes, reverses) ==
  \/ \E speed \in speeds, mode \in modes, reverse \in reverses :
       TurnOn(t, speed, mode, reverse) /\ UNCHANGED <<builderVars, deviceVars>>
  \/ TurnOff(t) /\ UNCHANGED <<builderVars, deviceVars>>
  \/ \E speed \in speeds :
       SetSpeed(t, speed) /\ UNCHANGED <<builderVars, deviceVars>>
  \/ \E mode \in modes :
       SetMode(t, mode) /\ UNCHANGED <<builderVars, deviceVars>>
  \/ \E reverse \in reverses :
       SetReverse(t, reverse) /\ UNCHANGED <<builderVars, deviceVars>>
  \/ GetStatus(t) /\ UNCHANGED <<builderVars, deviceVars>>
  \/ GetSpeed(t) /\ UNCHANGED <<builderVars, deviceVars>>
  \/ GetMode(t) /\ UNCHANGED <<builderVars, deviceVars>>
  \/ IsReversed(t) /\ UNCHANGED <<builderVars, deviceVars>>

AnswerOver(t, setReplies, getReplies, failures) ==
  \/ \E r \in setReplies :
       SetPilotReturns(t, r) /\ UNCHANGED <<builderVars, deviceVars>>
  \/ \E exc \in failures :
       SetPilotRaises(t, exc) /\ UNCHANGED <<builderVars, deviceVars>>
  \/ \E r \in getReplies :
       GetPilotReturns(t, r) /\ UNCHANGED <<builderVars, deviceVars>>
  \/ \E exc \in failures :
       GetPilotRaises(t, exc) /\ UNCHANGED <<builderVars, deviceVars>>

StepOver(t, speeds, modes, reverses, setReplies, getReplies, failures) ==
  \/ CallOver(t, speeds, modes, reverses)
  \/ AnswerOver(t, setReplies, getReplies, failures)

Step(t) ==
  StepOver(t, SpeedArgs, ModeArgs, ReverseArgs,
           SetPilotReplies, GetPilotReplies, TransportFailures)

(***************************************************************************)
(* Specification: one caller, one call at a time.                          *)
(***************************************************************************)
Next == Step(MainCaller)

Spec == Init /\ [][Next]_vars

(***************************************************************************)
(* Specification: the callers of one instance call concurrently.  A        *)
(* coroutine suspended in `await` lets the coroutines of the other callers *)
(* run; the instance has no lock.  Arguments and answers are drawn from    *)
(* small sets.                                                             *)
(***************************************************************************)
ConcSpeedArgs == {None, I(3), I(MaxSpeedArg)}
ConcModeArgs == {None}
ConcReverseArgs == {None, I(SUMMER)}
ConcSetReplies ==
  { [NoReply EXCEPT !.result = S("ok")], [NoReply EXCEPT !.result = S("error")] }
ConcGetReplies == { [NoReply EXCEPT !.fanMode = I(BREEZE)] }
ConcFailures ==
  { [type |-> "WizLightTimeOutError", msg |-> "timed out"] }

NextConc ==
  \E t \in Callers :
    StepOver(t, ConcSpeedArgs, ConcModeArgs, ConcReverseArgs,
             ConcSetReplies, ConcGetReplies, ConcFailures)

SpecConc == Init /\ [][NextConc]_vars

(***************************************************************************)
(* Specification: a FanPilotBuilder in the hands of its user.  The dicts   *)
(* are objects of the heap: "_payload" is the builder's own, "copy" the    *)
(* one the payload property made last; the user keeps the mapping the      *)
(* property returned last and can change it as any dict.                   *)
(***************************************************************************)
BuilderSpeedValues == {0, 1, 6, MaxSpeedArg}
BuilderNewSpeeds == {None, I(6), I(MaxSpeedArg)}
BuilderNewModes == {None, I(BREEZE)}
BuilderNewReverses == {None, I(SUMMER)}
UserPuts == { <<"fanSpeed", 0>>, <<"fanState", 1>> }
UserDeletes == {"fanSpeed", "fanMode"}

\* the builder whose _payload is the object of heap h
BuilderOf(h) == [payload |-> h["_payload"], raised |-> FALSE]

\* fault: the payload property handing out self._payload itself
PayloadPropertyAlias(h) == [heap |-> h, ref |-> "_payload"]

\* the payload property: a new dict with the items of self._payload
PayloadProperty(h) ==
  [heap |-> [h EXCEPT !["copy"] = BuilderPayload(BuilderOf(h))],
   ref |-> "copy"]

\* a fluent helper or the constructor ended: b is the builder after it
BuilderCalled(op, arg, b, field) ==
  /\ heap' = [heap EXCEPT !["_payload"] = b.payload]
  /\ last' = [op |-> op, arg |-> arg, raised |-> b.raised]
  /\ given' = IF b.raised THEN given ELSE [given EXCEPT ![field] = I(arg)]
  /\ UNCHANGED <<held, fanVars, deviceVars>>

\* FanPilotBuilder(speed=, mode=, reverse=): on ValueError no builder is
\* made and the one in use stays
CallNew(speed, mode, reverse) ==
  LET b == FanPilotBuilder(speed, mode, reverse) IN
  /\ heap' = IF b.raised THEN heap ELSE [heap EXCEPT !["_payload"] = b.payload]
  /\ last' = [op |-> "new", arg |-> 0, raised |-> b.raised]
  /\ given' = IF b.raised THEN given
              ELSE [speed |-> speed, mode |-> mode, reverse |-> reverse]
  /\ UNCHANGED <<held, fanVars, deviceVars>>

CallSpeed(value) ==
  BuilderCalled("speed", value, BuilderSpeed(BuilderOf(heap), value), "speed")

CallMode(value) ==
  BuilderCalled("mode", value, BuilderMode(BuilderOf(heap), value), "mode")

CallReverse(value) ==
  BuilderCalled("reverse", value, BuilderReverse(BuilderOf(heap), value),
                "reverse")

CallPayload ==
  /\ heap' = PayloadProperty(heap).heap
  /\ held' = PayloadProperty(heap).ref
  /\ last' = [op |-> "payload", arg |-> 0, raised |-> FALSE]
  /\ UNCHANGED <<given, fanVars, deviceVars>>

\* the user stores a key in the mapping it got
UserPut(key, value) ==
  /\ held # "none"
  /\ heap' = [heap EXCEPT ![held] = Put(@, key, value)]
  /\ last' = [op |-> "put", arg |-> value, raised |-> FALSE]
  /\ UNCHANGED <<held, given, fanVars, deviceVars>>

\* the user deletes a key of the mapping it got
UserDelete(key) ==
  /\ held # "none"
  /\ key \in DOMAIN heap[held]
  /\ heap' = [heap EXCEPT ![held] = [x \in (DOMAIN @) \ {key} |-> @[x]]]
  /\ last' = [op |-> "del", arg |-> 0, raised |-> FALSE]
  /\ UNCHANGED <<held, given, fanVars, deviceVars>>

NextBuilder ==
  \/ \E speed \in BuilderNewSpeeds, mode \in BuilderNewModes,
        reverse \in BuilderNewReverses : CallNew(speed, mode, reverse)
  \/ \E value \in BuilderSpeedValues : CallSpeed(value)
  \/ \E value \in FanMode : CallMode(value)
  \/ \E value \in FanReverse : CallReverse(value)
  \/ CallPayload
  \/ \E kv \in UserPuts : UserPut(kv[1], kv[2])
  \/ \E key \in UserDeletes : UserDelete(key)

SpecBuilder == Init /\ [][NextBuilder]_vars

(***************************************************************************)
(* Specification: one caller and a device that applies the parameters of   *)
(* every setPilot it accepts and reports the parameters it has applied in  *)
(* its reply to getPilot.  The device can reject a command and a command   *)
(* can be lost on the way; neither changes what the device has applied.    *)
(***************************************************************************)
EchoSpeedArgs == {None, I(1), I(6), I(MaxSpeedArg)}
EchoOk == [NoReply EXCEPT !.result = S("ok")]
EchoRejected == [NoReply EXCEPT !.error = S("invalid")]
EchoLost == [type |-> "WizLightTimeOutError", msg |-> "timed out"]

\* the status reply of a device that has applied d
Echo(d) ==
  [x \in DOMAIN NoReply |-> IF x \in DOMAIN d THEN I(d[x]) ELSE Absent]

\* c overrides the arguments set so far with those it gave
SetBy(c, sofar) ==
  [speed |-> IF c.speed # None THEN c.speed ELSE sofar.speed,
   mode |-> IF c.mode # None THEN c.mode ELSE sofar.mode,
   reverse |-> IF c.reverse # None THEN c.reverse ELSE sofar.reverse]

DeviceApplies(t) ==
  /\ AwaitsSetPilot(t)
  /\ device' = Sent(t) @@ device
  /\ lastSet' = IF pc[t] \in {"set_pilot", "turn_on_params"}
                THEN SetBy(call[t], lastSet) ELSE lastSet
  /\ SetPilotReturns(t, EchoOk)
  /\ UNCHANGED builderVars

DeviceRejects(t) ==
  SetPilotReturns(t, EchoRejected) /\ UNCHANGED <<builderVars, deviceVars>>

CommandLost(t) ==
  SetPilotRaises(t, EchoLost) /\ UNCHANGED <<builderVars, deviceVars>>

DeviceReports(t) ==
  GetPilotReturns(t, Echo(device)) /\ UNCHANGED <<builderVars, deviceVars>>

NextEcho ==
  \/ CallOver(MainCaller, EchoSpeedArgs, ModeArgs, ReverseArgs)
  \/ DeviceApplies(MainCaller)
  \/ DeviceRejects(MainCaller)
  \/ CommandLost(MainCaller)
  \/ DeviceReports(MainCaller)

SpecEcho == Init /\ [][NextEcho]_vars

(***************************************************************************)
(* Properties.                                                             *)
(***************************************************************************)
Done(t) == pc[t] = "done"
PowerOn == Cmd("setPilot", "fanState" :> 1)
PowerOff == Cmd("setPilot", "fanState" :> 0)

\* the argument a call gave for a wire key
ArgOf(c, key) ==
  CASE key = "fanSpeed" -> c.speed
    [] key = "fanMode" -> c.mode
    [] key = "fanRevrs" -> c.reverse

\* the mapping holding exactly the parameters a call asked for
Requested(c) ==
  [key \in {x \in {"fanSpeed", "fanMode", "fanRevrs"} : ArgOf(c, x) # None}
     |-> ArgOf(c, key).n]

\* the speed a call asked for is absent or one of the six steps
SpeedArgValid(c) == c.speed = None \/ c.speed.n \in 1..6

\* C1: every setPilot command handed to the transport whose payload holds
\* the key fanState holds no other key.
C1_PowerStateExclusive ==
  \A t \in Callers : \A i \in 1..Len(callLog[t]) :
    LET c == callLog[t][i] IN
    (c.cmd = "setPilot" /\ "fanState" \in DOMAIN c.params)
      => DOMAIN c.params = {"fanState"}

\* a turn_on with parameters has transmitted both of its commands
C1_Witness ==
  \E t \in Callers :
    /\ Done(t) /\ call[t].name = "turn_on" /\ Len(callLog[t]) = 2
    /\ "fanState" \in DOMAIN callLog[t][1].params
    /\ DOMAIN callLog[t][2].params = {"fanSpeed", "fanMode", "fanRevrs"}

\* C2: turn_on without parameters transmits exactly one command, setPilot
\* {fanState: 1}, and turn_off exactly one, setPilot {fanState: 0}, whatever
\* the transport answers.
C2_PowerOnlyOneCommand ==
  \A t \in Callers :
    /\ (call[t].name = "turn_on" /\ Requested(call[t]) = EmptyPayload)
         => callLog[t] = <<PowerOn>>
    /\ call[t].name = "turn_off" => callLog[t] = <<PowerOff>>

\* a turn_on without parameters has ended although its reply was rejected
C2_Witness ==
  \E t \in Callers :
    /\ Done(t) /\ call[t].name = "turn_on" /\ Requested(call[t]) = EmptyPayload
    /\ outcome[t].kind = "raised" /\ Len(answers[t]) = 1

\* the first answer of the call is a reply carrying result "ok"
FirstAccepted(t) ==
  /\ Len(answers[t]) >= 1
  /\ answers[t][1].kind = "reply"
  /\ answers[t][1].reply.result = S("ok")

\* the first answer of the call is a failure of the transport or a reply
\* that does not carry result "ok"
FirstFailed(t) == Len(answers[t]) >= 1 /\ ~FirstAccepted(t)

\* C3: turn_on with at least one valid parameter transmits {fanState: 1}
\* first and, once that command is accepted, one payload holding exactly the
\* requested parameters; when the first command fails the second is never
\* transmitted and the call ends with the first command's error.
C3_TurnOnTwoCommandsInOrder ==
  \A t \in Callers :
    (/\ call[t].name = "turn_on"
     /\ Requested(call[t]) # EmptyPayload
     /\ SpeedArgValid(call[t]))
    => /\ Len(callLog[t]) \in {1, 2}
       /\ callLog[t][1] = PowerOn
       /\ answers[t] = <<>> => Len(callLog[t]) = 1
       /\ FirstAccepted(t) =>
            /\ Len(callLog[t]) = 2
            /\ callLog[t][2] = Cmd("setPilot", Requested(call[t]))
       /\ FirstFailed(t) =>
            /\ callLog[t] = <<PowerOn>>
            /\ Done(t)
            /\ outcome[t].kind = "raised"
            /\ IF answers[t][1].kind = "raise"
               THEN outcome[t].exc = answers[t][1].exc
               ELSE outcome[t].exc =
                      ProtocolError("fanState" :> 1, answers[t][1].reply,
                                    error_code[t])

\* turn_on(reverse=SUMMER) alone, whose zero is a parameter like any other,
\* has transmitted its second command
C3_Witness ==
  \E t \in Callers :
    /\ call[t].name = "turn_on"
    /\ call[t].speed = None /\ call[t].mode = None /\ call[t].reverse = I(0)
    /\ Done(t) /\ Len(callLog[t]) = 2 /\ outcome[t].kind = "returned"

\* C4: set_speed(v) with v in 1..6 transmits one setPilot whose payload is
\* {fanSpeed: v}; with any other integer it raises ValueError and transmits
\* nothing.
C4_SetSpeedRange ==
  \A t \in Callers :
    (call[t].name = "set_speed" /\ call[t].speed # None)
    => IF call[t].speed.n \in 1..6
       THEN callLog[t] = <<Cmd("setPilot", "fanSpeed" :> call[t].speed.n)>>
       ELSE /\ callLog[t] = <<>>
            /\ Done(t)
            /\ outcome[t].kind = "raised"
            /\ outcome[t].exc.type = "ValueError"

\* set_speed(7), just above the range, has been refused
C4_Witness ==
  \E t \in Callers :
    /\ call[t].name = "set_speed" /\ call[t].speed = I(7)
    /\ Done(t) /\ outcome[t].kind = "raised"

\* the call ended with WizLightProtocolError
ProtocolViolation(t) ==
  Done(t) /\ outcome[t].kind = "raised"
  /\ outcome[t].exc.type = "WizLightProtocolError"

\* the last answer the call received is a reply to a setPilot
LastIsSetPilotReply(t) ==
  /\ Len(answers[t]) >= 1
  /\ answers[t][Len(answers[t])].kind = "reply"
  /\ callLog[t][Len(answers[t])].cmd = "setPilot"

LastReply(t) == answers[t][Len(answers[t])].reply

\* C5: a call that ends with the ValueError of an argument outside its
\* domain has transmitted no command.
C5_NoTransmissionBeforeInvalidArgument ==
  \A t \in Callers :
    (/\ Done(t)
     /\ outcome[t].kind = "raised"
     /\ outcome[t].exc \in {ValueErrorSpeed, ValueErrorState})
    => callLog[t] = <<>>

\* C6: a reply to a setPilot is followed by WizLightProtocolError if and
\* only if its result field is not "ok", with or without an error field.
C6_AcceptedIffResultOk ==
  \A t \in Callers : \A i \in 1..Len(answers[t]) :
    (answers[t][i].kind = "reply" /\ callLog[t][i].cmd = "setPilot")
    => (answers[t][i].reply.result = S("ok")
          <=> ~(i = Len(answers[t]) /\ ProtocolViolation(t)))

\* a reply carrying both result "ok" and an error field has been accepted
C6_Witness ==
  \E t \in Callers :
    /\ Done(t) /\ LastIsSetPilotReply(t)
    /\ LastReply(t).result = S("ok") /\ LastReply(t).error = S("invalid")
    /\ outcome[t].kind = "returned"

\* C7: for a rejected reply the error indicator is the value of the error
\* field whenever the reply has one, and the value of the result field only
\* when it has none.
C7_IndicatorIsErrorField ==
  \A t \in Callers :
    ProtocolViolation(t)
    => error_code[t] = IF LastReply(t).error # Absent
                       THEN LastReply(t).error
                       ELSE Get(LastReply(t), "result")

\* C8: a reply to a setPilot with neither an error nor a result field raises
\* WizLightProtocolError whose error indicator is None.
C8_EmptyReplyRejected ==
  \A t \in Callers :
    (/\ LastIsSetPilotReply(t)
     /\ LastReply(t).result = Absent
     /\ LastReply(t).error = Absent)
    => /\ ProtocolViolation(t)
       /\ error_code[t] = None

\* a setPilot has been answered by a mapping without keys
C8_Witness ==
  \E t \in Callers :
    /\ Done(t) /\ LastIsSetPilotReply(t) /\ LastReply(t) = NoReply
    /\ outcome[t].kind = "raised"

\* every payload a setPilot can carry
AllPayloads ==
  {"fanState" :> state : state \in {0, 1}}
  \cup {Requested([speed |-> sp, mode |-> m, reverse |-> rv]) :
          sp \in SpeedArgs, m \in ModeArgs, rv \in ReverseArgs}

\* the message of the WizLightProtocolError for each request and reply
Messages ==
  { [sent |-> p, reply |-> r, msg |-> ProtocolMessage(p, r, ErrorCode(r))] :
      p \in AllPayloads, r \in SetPilotReplies }

\* C9: the WizLightProtocolError determines the request payload, the reply
\* and the error indicator: no other request and reply lead to the same
\* failure value.
C9_ViolationCarriesAll ==
  \A t \in Callers :
    ProtocolViolation(t)
    => \A m \in Messages :
         m.msg = outcome[t].exc.msg
         => /\ m.sent = Sent(t)
            /\ m.reply = LastReply(t)
            /\ ErrorCode(m.reply) = error_code[t]

\* the parameter command of a turn_on has been rejected with the text "0" as
\* its result, which the message shows like the number 0
C9_Witness ==
  \E t \in Callers :
    /\ ProtocolViolation(t) /\ Len(callLog[t]) = 2
    /\ LastReply(t).result = S("0") /\ LastReply(t).error = I(0)

\* C10: handed an empty mapping, the send path transmits nothing and returns
\* normally; handed a non-empty one, it transmits exactly one setPilot
\* carrying it.
C10_EmptyPayloadNoOp ==
  \A t \in Callers :
    (/\ call[t].name \in {"set_speed", "set_mode", "set_reverse"}
     /\ SpeedArgValid(call[t]))
    => IF Requested(call[t]) = EmptyPayload
       THEN /\ Done(t)
            /\ callLog[t] = <<>>
            /\ answers[t] = <<>>
            /\ outcome[t] = Returned(None, NoReply)
       ELSE callLog[t] = <<Cmd("setPilot", Requested(call[t]))>>

\* set_mode(None) has built an empty payload and returned
C10_Witness ==
  \E t \in Callers :
    /\ call[t].name = "set_mode" /\ call[t].mode = None
    /\ Done(t) /\ outcome[t].kind = "returned"

\* C11: a connection or timeout error raised by the transport ends the
\* call: no further command is transmitted, the caller receives that very
\* failure, and the one log record written changes nothing of it.
C11_TransportFailurePropagates ==
  \A t \in Callers : \A i \in 1..Len(answers[t]) :
    answers[t][i].kind = "raise"
    => /\ i = Len(answers[t])
       /\ Len(callLog[t]) = i
       /\ Done(t)
       /\ outcome[t] = Raised(answers[t][i].exc)
       /\ Len(log[t]) = 1
       /\ log[t][1].exc = answers[t][i].exc

\* the parameter command of a turn_on has timed out
C11_Witness ==
  \E t \in Callers :
    /\ call[t].name = "turn_on" /\ Len(answers[t]) = 2
    /\ answers[t][2].kind = "raise"
    /\ answers[t][2].exc.type = "WizLightTimeOutError"
    /\ Done(t)

\* C12: get_status transmits exactly one getPilot with an empty body and
\* returns the reply mapping unchanged, whatever its result and error fields
\* are; it never raises WizLightProtocolError.
C12_GetStatusRaw ==
  \A t \in Callers :
    call[t].name = "get_status"
    => /\ callLog[t] = <<Cmd("getPilot", EmptyPayload)>>
       /\ ~ProtocolViolation(t)
       /\ (Len(answers[t]) = 1 /\ answers[t][1].kind = "reply")
            => /\ Done(t)
               /\ outcome[t].kind = "returned"
               /\ outcome[t].map = answers[t][1].reply

\* get_status has returned a reply that carries result "error" and an error
C12_Witness ==
  \E t \in Callers :
    /\ call[t].name = "get_status" /\ Done(t)
    /\ outcome[t].kind = "returned"
    /\ outcome[t].map.result = S("error")
    /\ outcome[t].map.error = S("invalid")

\* C17: get_mode returns NORMAL when the status reply has no fanMode field,
\* the mode itself when the field holds 1 or 2, and fails with
\* WizLightProtocolError for any other integer.
C17_InvalidModeIsProtocolViolation ==
  \A t \in Callers :
    (/\ call[t].name = "get_mode"
     /\ Len(answers[t]) = 1
     /\ answers[t][1].kind = "reply")
    => LET m == answers[t][1].reply.fanMode IN
       /\ Done(t)
       /\ IF m = Absent THEN outcome[t] = Returned(I(1), NoReply)
          ELSE IF m.n \in {1, 2} THEN outcome[t] = Returned(m, NoReply)
          ELSE ProtocolViolation(t)

\* C20: turn_on has no rollback.  When the power-on command was accepted and
\* the parameter step fails, the call ends with that step's error, the
\* power-on command stays transmitted and no power-off command follows it.
\* No call transmits more than two commands, and a call whose commands have
\* all been answered has ended.
C20_NoRollback ==
  \A t \in Callers :
    /\ Len(callLog[t]) <= 2
    /\ (pc[t] # "idle" /\ Len(answers[t]) = Len(callLog[t])) => Done(t)
    /\ (/\ call[t].name = "turn_on"
        /\ FirstAccepted(t)
        /\ Done(t)
        /\ outcome[t].kind = "raised")
       => /\ callLog[t][1] = PowerOn
          /\ \A i \in 1..Len(callLog[t]) : callLog[t][i] # PowerOff
          /\ IF Len(callLog[t]) = 1
             THEN outcome[t].exc = ValueErrorSpeed
             ELSE /\ callLog[t][2] = Cmd("setPilot", Requested(call[t]))
                  /\ Len(answers[t]) = 2
                  /\ IF answers[t][2].kind = "raise"
                     THEN outcome[t].exc = answers[t][2].exc
                     ELSE outcome[t].exc =
                            ProtocolError(Requested(call[t]),
                                          answers[t][2].reply, error_code[t])

\* turn_on(speed=7) has switched the fan on and then refused the speed
C20_Witness ==
  \E t \in Callers :
    /\ call[t].name = "turn_on" /\ call[t].speed = I(7)
    /\ Done(t) /\ outcome[t] = Raised(ValueErrorSpeed)
    /\ callLog[t] = <<PowerOn>>

(***************************************************************************)
(* Concurrent callers of one instance (SpecConc).                          *)
(***************************************************************************)
\* the step in which turn_on of caller t hands its parameter command to the
\* transport
IssuesParamCommand(t) ==
  pc[t] = "turn_on_state" /\ pc'[t] = "turn_on_params"

\* C16 as stated: the parameter command of turn_on is the next command the
\* instance hands to the transport after that call's {fanState: 1}, also
\* with other operations issued concurrently on the instance; no other
\* command is interleaved between the two.
C16_ParamCommandNextOnInstance ==
  [][\A t \in Callers :
       IssuesParamCommand(t)
       => lastTx = [caller |-> t, n |-> 1, params |-> PowerOn.params]]_vars

\* C16 amended: the parameter command is the next command the turn_on call
\* itself hands to the transport after its {fanState: 1} is accepted; it
\* carries the parameters of that call; commands of other callers of the
\* instance can lie between the two.
C16_ParamCommandNextOfCall ==
  [][\A t \in Callers :
       IssuesParamCommand(t)
       => /\ callLog[t] = <<PowerOn>>
          /\ Len(answers'[t]) = 1
          /\ answers'[t][1].kind = "reply"
          /\ answers'[t][1].reply.result = S("ok")
          /\ callLog'[t] = <<PowerOn, Cmd("setPilot", Requested(call[t]))>>
          /\ lastTx' = [caller |-> t, n |-> 2, params |-> Requested(call[t])]
          /\ lastTx.caller = t => lastTx.n = 1]_vars

\* turn_on of one caller has issued its parameter command after a command
\* of the other caller was the last on the wire
C16_Witness ==
  \E t, u \in Callers :
    /\ t # u
    /\ pc[t] = "turn_on_params"
    /\ lastTx.caller = t /\ lastTx.n = 2
    /\ pc[u] \in {"turn_off_state", "set_pilot"}
    /\ call[t].speed # call[u].speed

\* C19: the dispatcher keeps no state between operations.  Two calls with
\* the same arguments that got the same answers have transmitted the same
\* commands and stand at the same place with the same outcome, whatever
\* ran on the instance before; turn_off transmits {fanState: 0} and
\* set_speed a payload without fanState in every history.
C19_DependsOnlyOnArgsAndReplies ==
  /\ \A t, u \in Callers :
       (pc[t] # "idle" /\ pc[u] # "idle"
        /\ call[t] = call[u] /\ answers[t] = answers[u])
       => /\ callLog[t] = callLog[u]
          /\ pc[t] = pc[u]
          /\ outcome[t] = outcome[u]
  /\ \A t \in Callers :
       /\ (pc[t] # "idle" /\ call[t].name = "turn_off")
          => callLog[t] = <<PowerOff>>
       /\ (pc[t] # "idle" /\ call[t].name = "set_speed"
           /\ call[t].speed # None /\ SpeedArgValid(call[t]))
          => callLog[t] = <<Cmd("setPilot", "fanSpeed" :> call[t].speed.n)>>

\* two callers have made the same call, here a turn_off on an instance
\* that never was turned on, and got the same rejecting reply
C19_Witness ==
  \E t, u \in Callers :
    /\ t # u
    /\ Done(t) /\ Done(u)
    /\ call[t] = call[u] /\ call[t].name = "turn_off"
    /\ answers[t] = answers[u] /\ Len(answers[t]) = 1
    /\ outcome[t].kind = "raised"

(***************************************************************************)
(* The builder in the hands of its user (SpecBuilder).                     *)
(***************************************************************************)
BuilderKeys == {"fanSpeed", "fanMode", "fanRevrs"}

\* __bool__ of the builder whose _payload is the object of heap h
NonEmpty(h) == BuilderBool(BuilderOf(h))

\* C14: the payload property returns a copy.  The mapping it returns has
\* the items of the builder's payload and is another object; a key the
\* user adds, changes or removes in it changes neither the builder's
\* payload nor what the next payload access returns.
C14_PayloadIsACopy ==
  /\ [](/\ held # "_payload"
        /\ last.op = "payload" => heap[held] = heap["_payload"])
  /\ [][last'.op \in {"put", "del"}
        => /\ heap'["_payload"] = heap["_payload"]
           /\ PayloadProperty(heap').heap[PayloadProperty(heap').ref]
                = PayloadProperty(heap).heap[PayloadProperty(heap).ref]]_vars

\* the user has changed the mapping it got from a builder that holds all
\* three fields, and the mapping differs from the builder's payload
C14_Witness ==
  /\ last.op \in {"put", "del"}
  /\ DOMAIN heap["_payload"] = BuilderKeys
  /\ held = "copy"
  /\ heap[held] # heap["_payload"]

\* C15: only present fields are sent.  The builder's payload, and the
\* mapping the payload property returns, has as keys exactly the fields
\* set, each with the integer last given, and never fanState; so the
\* payloads of set_speed, set_mode and set_reverse hold a single key.
C15_OnlyPresentFields ==
  /\ heap["_payload"] = Requested(given)
  /\ DOMAIN heap["_payload"] \subseteq BuilderKeys
  /\ "fanState" \notin DOMAIN heap["_payload"]
  /\ last.op = "payload" => heap[held] = Requested(given)
  /\ \A value \in 1..6 :
       BuilderPayload(FanPilotBuilder(I(value), None, None))
         = "fanSpeed" :> value
  /\ \A value \in FanMode :
       BuilderPayload(FanPilotBuilder(None, I(value), None))
         = "fanMode" :> value
  /\ \A value \in FanReverse :
       BuilderPayload(FanPilotBuilder(None, None, I(value)))
         = "fanRevrs" :> value

\* a payload read from a builder in which speed and mode were given, the
\* direction not, and the speed given is not the one of the constructor
C15_Witness ==
  /\ last.op = "payload"
  /\ DOMAIN heap[held] = {"fanSpeed", "fanMode"}
  /\ heap[held]["fanSpeed"] = 1

\* C18: a rejected builder call changes nothing.  speed(v) raises exactly
\* for v outside 1..6; then the payload is what it was before the call and
\* the emptiness check answers as before.
C18_RejectedSpeedChangesNothing ==
  /\ [](last.op = "speed" => (last.raised <=> last.arg \notin 1..6))
  /\ [][(last'.op = "speed" /\ last'.raised)
        => /\ heap'["_payload"] = heap["_payload"]
           /\ NonEmpty(heap') = NonEmpty(heap)]_vars

\* speed(v) was rejected on a builder that holds speed, mode and direction
C18_Witness ==
  /\ last.op = "speed" /\ last.raised
  /\ DOMAIN heap["_payload"] = BuilderKeys

(***************************************************************************)
(* Round trip through a device that reports what it applied (SpecEcho).    *)
(***************************************************************************)
\* C13: after a parameter command with mode m was accepted by such a
\* device, get_mode returns m, for m NORMAL and BREEZE; get_speed returns
\* the speed last set and is_reversed the direction last set.
C13_RoundTrip ==
  \A t \in Callers :
    Done(t)
    => /\ (call[t].name = "get_mode" /\ lastSet.mode # None)
          => /\ lastSet.mode.n \in FanMode
             /\ outcome[t] = Returned(lastSet.mode, NoReply)
       /\ (call[t].name = "get_speed" /\ lastSet.speed # None)
          => outcome[t] = Returned(lastSet.speed, NoReply)
       /\ (call[t].name = "is_reversed" /\ lastSet.reverse # None)
          => outcome[t] = Returned(B(lastSet.reverse.n = WINTER), NoReply)

\* is_reversed has returned True from a device on which BREEZE, a speed
\* and WINTER were set
C13_Witness ==
  /\ Done(MainCaller)
  /\ call[MainCaller].name = "is_reversed"
  /\ lastSet = [speed |-> I(6), mode |-> I(BREEZE), reverse |-> I(WINTER)]
  /\ outcome[MainCaller] = Returned(B(TRUE), NoReply)

====
